---- MODULE Spec2Model ----
(***************************************************************************)
(* Model of the anti-corruption layer of src/src/lib.rs: the smart         *)
(* constructors Username::new, Email::parse, Age::parse_str, the loose     *)
(* timestamp resolver parse_loose_time and the two mappings Acl::to_domain *)
(* and Acl::to_dto.                                                        *)
(*                                                                         *)
(* A Rust String is a sequence of one-character strings.  An Option is     *)
(* None or Some(v), a Result is Ok(v) or Err(e).  An i64 count of seconds  *)
(* n is held as the pair [d |-> n div 86400, s |-> n mod 86400] because    *)
(* the limits of OffsetDateTime (about 2.5 * 10^11 s) do not fit the       *)
(* integers of the model checker; the pair determines n and n determines   *)
(* the pair.                                                               *)
(***************************************************************************)
EXTENDS Integers, Sequences, FiniteSets, TLC

VARIABLES call, arg, ret, dto

vars == <<call, arg, ret, dto>>

(***************************************************************************)
(* Option, Result and AclError (lib.rs 78-90).                             *)
(***************************************************************************)
None == [some |-> FALSE]
Some(x) == [some |-> TRUE, v |-> x]

Ok(x) == [ok |-> TRUE, val |-> x]
Err(e) == [ok |-> FALSE, err |-> e]

Missing(f) == [kind |-> "Missing", field |-> f]
UsernameEmpty == [kind |-> "UsernameEmpty", field |-> ""]
InvalidEmail == [kind |-> "InvalidEmail", field |-> ""]
InvalidAge == [kind |-> "InvalidAge", field |-> ""]
InvalidCreatedAt == [kind |-> "InvalidCreatedAt", field |-> ""]

(***************************************************************************)
(* Characters.                                                             *)
(***************************************************************************)
Digits == <<"0", "1", "2", "3", "4", "5", "6", "7", "8", "9">>
IsDigit(c) == \E i \in 1..10 : Digits[i] = c
to_digit(c) == (CHOOSE i \in 1..10 : Digits[i] = c) - 1
is_whitespace(c) == c \in {" ", "\t", "\n"}

(***************************************************************************)
(* str::trim: drops leading and trailing whitespace.                       *)
(***************************************************************************)
RECURSIVE trim_start(_)
trim_start(s) ==
    IF s # <<>> /\ is_whitespace(Head(s)) THEN trim_start(Tail(s)) ELSE s

RECURSIVE trim_end(_)
trim_end(s) ==
    IF s # <<>> /\ is_whitespace(s[Len(s)])
    THEN trim_end(SubSeq(s, 1, Len(s) - 1))
    ELSE s

trim(s) == trim_end(trim_start(s))

(***************************************************************************)
(* Username::new (lib.rs 49-53) and as_str (54): the check is made on the  *)
(* trimmed text, the stored text is the input.                             *)
(***************************************************************************)
Username_new_Trimmed(s) ==
    IF trim(s) = <<>> THEN Err(UsernameEmpty) ELSE Ok(trim(s))

Username_new(s) ==
    IF trim(s) = <<>> THEN Err(UsernameEmpty) ELSE Ok(s)

(***************************************************************************)
(* <u16 as FromStr>::from_str (lib.rs 66): an optional "+", then at least  *)
(* one digit, nothing else; the value is accumulated digit by digit and    *)
(* an overflow of u16 is an error.  -1 stands for the error.               *)
(***************************************************************************)
U16_MAX == 65535
U8_MAX == 255

RECURSIVE parse_digits(_, _)
parse_digits(s, acc) ==
    IF s = <<>> THEN acc
    ELSE IF ~IsDigit(Head(s)) THEN -1
    ELSE IF acc * 10 + to_digit(Head(s)) > U16_MAX THEN -1
    ELSE parse_digits(Tail(s), acc * 10 + to_digit(Head(s)))

parse_u16(s) ==
    IF s = <<>> THEN -1
    ELSE IF Len(s) = 1 /\ Head(s) \in {"+", "-"} THEN -1
    ELSE IF Head(s) = "+" THEN parse_digits(Tail(s), 0)
    ELSE parse_digits(s, 0)

(***************************************************************************)
(* Age::parse_str (lib.rs 65-70) and get (71): the Age is its number.      *)
(***************************************************************************)
Age_parse_str_AllowZero(s) ==
    LET n == parse_u16(trim(s)) IN
    IF n = -1 THEN Err(InvalidAge)
    ELSE IF n > U8_MAX THEN Err(InvalidAge)
    ELSE Ok(n)

Age_parse_str(s) ==
    LET n == parse_u16(trim(s)) IN
    IF n = -1 THEN Err(InvalidAge)
    ELSE IF n > U8_MAX THEN Err(InvalidAge)
    ELSE IF n = 0 THEN Err(InvalidAge)
    ELSE Ok(n)

(***************************************************************************)
(* u8::to_string (lib.rs 116): the decimal digits, no sign, no padding.    *)
(***************************************************************************)
RECURSIVE to_string(_)
to_string(n) ==
    IF n < 10 THEN <<Digits[n + 1]>>
    ELSE Append(to_string(n \div 10), Digits[(n % 10) + 1])

(***************************************************************************)
(* Email::parse (lib.rs 58-60) and as_str (61).  EmailAddress::parse for   *)
(* unquoted local parts and textual domains: the text is split at its last *)
(* "@"; both sides are non-empty dot-separated runs of atom characters,    *)
(* no run empty.  The Email keeps the text it was parsed from.  is_atext    *)
(* lists the atom characters that the inputs below use.                    *)
(***************************************************************************)
Letters ==
    {"a", "b", "c", "d", "e", "f", "g", "h", "i", "j", "k", "l", "m",
     "n", "o", "p", "q", "r", "s", "t", "u", "v", "w", "x", "y", "z"}

is_atext(c) == c \in Letters \/ IsDigit(c) \/ c \in {"-", "+", "_"}

RECURSIVE is_dot_atom_text(_, _)
is_dot_atom_text(s, run) ==
    IF s = <<>> THEN run > 0
    ELSE IF Head(s) = "." THEN run > 0 /\ is_dot_atom_text(Tail(s), 0)
    ELSE is_atext(Head(s)) /\ is_dot_atom_text(Tail(s), run + 1)

RECURSIVE rfind_at(_)
rfind_at(s) ==
    IF s = <<>> THEN 0
    ELSE IF s[Len(s)] = "@" THEN Len(s)
    ELSE rfind_at(SubSeq(s, 1, Len(s) - 1))

EmailAddress_parse(s) ==
    LET i == rfind_at(s) IN
    /\ i > 0
    /\ is_dot_atom_text(SubSeq(s, 1, i - 1), 0)
    /\ is_dot_atom_text(SubSeq(s, i + 1, Len(s)), 0)

Email_parse(s) ==
    IF EmailAddress_parse(s) THEN Ok(s) ELSE Err(InvalidEmail)

(***************************************************************************)
(* time::OffsetDateTime: a local calendar date and time of day with the    *)
(* offset from UTC in seconds.  Two values are equal when they are the     *)
(* same instant, whatever their offsets (PartialEq for OffsetDateTime).    *)
(***************************************************************************)
MIN_YEAR == -9999
MAX_YEAR == 9999

is_leap_year(y) == y % 4 = 0 /\ (y % 100 # 0 \/ y % 400 = 0)

days_in_month(y, m) ==
    IF m = 2 THEN (IF is_leap_year(y) THEN 29 ELSE 28)
    ELSE IF m \in {4, 6, 9, 11} THEN 30 ELSE 31

\* Days from 1970-01-01 to the date y-m-d of the proleptic Gregorian calendar.
days_from_civil(y, m, d) ==
    LET yy == IF m <= 2 THEN y - 1 ELSE y
        era == yy \div 400
        yoe == yy - era * 400
        mp == IF m > 2 THEN m - 3 ELSE m + 9
        doy == (153 * mp + 2) \div 5 + d - 1
        doe == yoe * 365 + yoe \div 4 - yoe \div 100 + doy
    IN era * 146097 + doe - 719468

\* The date that is z days from 1970-01-01.
civil_from_days(z) ==
    LET zz == z + 719468
        era == zz \div 146097
        doe == zz - era * 146097
        yoe == (doe - doe \div 1460 + doe \div 36524 - doe \div 146096) \div 365
        doy == doe - (365 * yoe + yoe \div 4 - yoe \div 100)
        mp == (5 * doy + 2) \div 153
        d == doy - (153 * mp + 2) \div 5 + 1
        m == IF mp < 10 THEN mp + 3 ELSE mp - 9
        y == yoe + era * 400
    IN [year |-> IF m <= 2 THEN y + 1 ELSE y, month |-> m, day |-> d]

DateTime(y, mo, d, h, mi, s, ns, off) ==
    [year |-> y, month |-> mo, day |-> d, hour |-> h, minute |-> mi,
     second |-> s, nanosecond |-> ns, offset |-> off]

\* OffsetDateTime::unix_timestamp (lib.rs 118): whole seconds from the epoch
\* to the instant, the nanoseconds dropped; as the pair (days, second of day).
unix_timestamp(dt) ==
    LET sod == dt.hour * 3600 + dt.minute * 60 + dt.second - dt.offset IN
    [d |-> days_from_civil(dt.year, dt.month, dt.day) + sod \div 86400,
     s |-> sod % 86400]

\* PartialEq for OffsetDateTime: the same instant, to the nanosecond.
dt_eq(a, b) ==
    /\ unix_timestamp(a) = unix_timestamp(b)
    /\ a.nanosecond = b.nanosecond

\* OffsetDateTime::from_unix_timestamp (lib.rs 125): an error outside
\* Date::MIN 00:00:00 .. Date::MAX 23:59:59, otherwise the UTC date and time.
MIN_TIMESTAMP_DAY == days_from_civil(MIN_YEAR, 1, 1)
MAX_TIMESTAMP_DAY == days_from_civil(MAX_YEAR, 12, 31)

from_unix_timestamp_NoRange(n) ==
    LET date == civil_from_days(n.d) IN
    Ok(DateTime(date.year, date.month, date.day,
                n.s \div 3600, (n.s % 3600) \div 60, n.s % 60, 0, 0))

from_unix_timestamp(n) ==
    IF n.d < MIN_TIMESTAMP_DAY \/ n.d > MAX_TIMESTAMP_DAY
    THEN Err("ComponentRange")
    ELSE LET date == civil_from_days(n.d) IN
         Ok(DateTime(date.year, date.month, date.day,
                     n.s \div 3600, (n.s % 3600) \div 60, n.s % 60, 0, 0))

(***************************************************************************)
(* OffsetDateTime::parse(&s, &Rfc3339) (lib.rs 128-129):                   *)
(*   YYYY-MM-DD (T|t) HH:MM:SS [.digits] (Z|z | (+|-)HH:MM)                *)
(* and nothing after it.  A second of 60 is read as the last nanosecond of *)
(* second 59 and accepted only where a leap second can stand.              *)
(***************************************************************************)
digits_at(s, i, n) == i + n - 1 <= Len(s) /\ \A k \in i..(i + n - 1) : IsDigit(s[k])

RECURSIVE num_at(_, _, _)
num_at(s, i, n) ==
    IF n = 0 THEN 0 ELSE num_at(s, i, n - 1) * 10 + to_digit(s[i + n - 1])

char_at(s, i, cs) == i <= Len(s) /\ s[i] \in cs

\* The number of digits of s from position i on.
RECURSIVE digit_run(_, _)
digit_run(s, i) ==
    IF i <= Len(s) /\ IsDigit(s[i]) THEN 1 + digit_run(s, i + 1) ELSE 0

\* The nanoseconds of the k fraction digits at position i: the first digit
\* counts 100_000_000, each next one a tenth of it, those after the ninth nothing.
RECURSIVE subsecond(_, _, _, _)
subsecond(s, i, k, mult) ==
    IF k = 0 THEN 0
    ELSE to_digit(s[i]) * mult + subsecond(s, i + 1, k - 1, mult \div 10)

is_valid_leap_second_stand_in(dt) ==
    /\ dt.nanosecond = 999999999
    /\ unix_timestamp(dt).s = 86399
    /\ LET date == civil_from_days(unix_timestamp(dt).d) IN
       date.day = days_in_month(date.year, date.month)

Rfc3339_parse_SpaceSeparator(s) ==
    IF /\ digits_at(s, 1, 4) /\ char_at(s, 5, {"-"})
       /\ digits_at(s, 6, 2) /\ char_at(s, 8, {"-"})
       /\ digits_at(s, 9, 2) /\ char_at(s, 11, {" "})
       /\ digits_at(s, 12, 2) /\ char_at(s, 14, {":"})
       /\ digits_at(s, 15, 2) /\ char_at(s, 17, {":"})
       /\ digits_at(s, 18, 2) /\ char_at(s, 20, {"Z", "z"}) /\ Len(s) = 20
    THEN Ok(DateTime(num_at(s, 1, 4), num_at(s, 6, 2), num_at(s, 9, 2),
                     num_at(s, 12, 2), num_at(s, 15, 2), num_at(s, 18, 2), 0, 0))
    ELSE Err("Parse")

Rfc3339_parse(s) ==
    LET fixed ==
            /\ digits_at(s, 1, 4) /\ char_at(s, 5, {"-"})
            /\ digits_at(s, 6, 2) /\ char_at(s, 8, {"-"})
            /\ digits_at(s, 9, 2) /\ char_at(s, 11, {"T", "t"})
            /\ digits_at(s, 12, 2) /\ char_at(s, 14, {":"})
            /\ digits_at(s, 15, 2) /\ char_at(s, 17, {":"})
            /\ digits_at(s, 18, 2)
        dot == char_at(s, 20, {"."})
        k == IF dot THEN digit_run(s, 21) ELSE 0
        p == IF dot THEN 21 + k ELSE 20
        zulu == char_at(s, p, {"Z", "z"}) /\ Len(s) = p
        numeric ==
            /\ char_at(s, p, {"+", "-"})
            /\ digits_at(s, p + 1, 2) /\ char_at(s, p + 3, {":"})
            /\ digits_at(s, p + 4, 2) /\ Len(s) = p + 5
    IN
    IF ~(fixed /\ (dot => k > 0) /\ (zulu \/ numeric)) THEN Err("Parse")
    ELSE
    LET year == num_at(s, 1, 4)
        month == num_at(s, 6, 2)
        day == num_at(s, 9, 2)
        hour == num_at(s, 12, 2)
        minute == num_at(s, 15, 2)
        sec == num_at(s, 18, 2)
        leap == sec = 60
        second == IF leap THEN 59 ELSE sec
        nanosecond == IF leap THEN 999999999 ELSE subsecond(s, 21, k, 100000000)
        oh == IF zulu THEN 0 ELSE num_at(s, p + 1, 2)
        om == IF zulu THEN 0 ELSE num_at(s, p + 4, 2)
        sgn == IF ~zulu /\ s[p] = "-" THEN -1 ELSE 1
        dt == DateTime(year, month, day, hour, minute, second, nanosecond,
                       sgn * (oh * 3600 + om * 60))
    IN
    IF oh > 25 \/ om > 59 THEN Err("ComponentRange")
    ELSE IF month < 1 \/ month > 12 THEN Err("ComponentRange")
    ELSE IF day < 1 \/ day > days_in_month(year, month) THEN Err("ComponentRange")
    ELSE IF hour > 23 \/ minute > 59 \/ second > 59 THEN Err("ComponentRange")
    ELSE IF leap /\ ~is_valid_leap_second_stand_in(dt) THEN Err("ComponentRange")
    ELSE Ok(dt)

(***************************************************************************)
(* OffsetDateTime::parse(&s, &alt) with the description                    *)
(* "[year]-[month]-[day] [hour]:[minute]:[second] UTC" (lib.rs 130-131).   *)
(* The items are parsed into a time::parsing::Parsed; " UTC" is a literal, *)
(* so the description has no offset component and Parsed::offset_hour      *)
(* stays None.  The conversion of a Parsed into an OffsetDateTime needs    *)
(* the offset and fails with InsufficientInformation without it.           *)
(***************************************************************************)
alt_parse_items(s) ==
    LET q == IF char_at(s, 1, {"-"}) THEN 1 ELSE 0 IN
    IF /\ digits_at(s, q + 1, 4) /\ char_at(s, q + 5, {"-"})
       /\ digits_at(s, q + 6, 2) /\ char_at(s, q + 8, {"-"})
       /\ digits_at(s, q + 9, 2) /\ char_at(s, q + 11, {" "})
       /\ digits_at(s, q + 12, 2) /\ char_at(s, q + 14, {":"})
       /\ digits_at(s, q + 15, 2) /\ char_at(s, q + 17, {":"})
       /\ digits_at(s, q + 18, 2)
       /\ SubSeq(s, q + 20, Len(s)) = <<" ", "U", "T", "C">>
    THEN Ok([year |-> (IF q = 1 THEN -1 ELSE 1) * num_at(s, q + 1, 4),
             month |-> num_at(s, q + 6, 2), day |-> num_at(s, q + 9, 2),
             hour |-> num_at(s, q + 12, 2), minute |-> num_at(s, q + 15, 2),
             second |-> num_at(s, q + 18, 2),
             offset_hour |-> None])
    ELSE Err("Parse")

\* TryFrom<Parsed> for OffsetDateTime.
OffsetDateTime_try_from(parsed) ==
    IF ~parsed.offset_hour.some THEN Err("InsufficientInformation")
    ELSE IF parsed.month < 1 \/ parsed.month > 12 THEN Err("ComponentRange")
    ELSE IF parsed.day < 1 \/ parsed.day > days_in_month(parsed.year, parsed.month)
         THEN Err("ComponentRange")
    ELSE IF parsed.hour > 23 \/ parsed.minute > 59 \/ parsed.second > 59
         THEN Err("ComponentRange")
    ELSE Ok(DateTime(parsed.year, parsed.month, parsed.day, parsed.hour,
                     parsed.minute, parsed.second, 0,
                     parsed.offset_hour.v * 3600))

alt_parse(s) ==
    LET parsed == alt_parse_items(s) IN
    IF parsed.ok THEN OffsetDateTime_try_from(parsed.val) ELSE parsed

(***************************************************************************)
(* LooseTime (lib.rs 22-25) and parse_loose_time (lib.rs 123-134).         *)
(***************************************************************************)
UnixSecs(n) == [tag |-> "UnixSecs", secs |-> n]
Rfc3339(s) == [tag |-> "Rfc3339", text |-> s]

parse_loose_time(t) ==
    IF t.tag = "UnixSecs"
    THEN LET r == from_unix_timestamp(t.secs) IN
         IF r.ok THEN r ELSE Err(InvalidCreatedAt)
    ELSE LET strict == Rfc3339_parse(t.text) IN
         IF strict.ok THEN strict
         ELSE LET alt == alt_parse(t.text) IN
              IF alt.ok THEN alt ELSE Err(InvalidCreatedAt)

(***************************************************************************)
(* UserDto (lib.rs 12-17), User (lib.rs 32-37) and Acl (lib.rs 98-121).    *)
(***************************************************************************)
UserDto(name, age, email, created) ==
    [user_name |-> name, user_age |-> age, email_address |-> email,
     created_at |-> created]

Acl_to_domain_ValidateAsRead(d) ==
    IF ~d.user_name.some THEN Err(Missing("user_name"))
    ELSE IF ~Username_new(d.user_name.v).ok THEN Username_new(d.user_name.v)
    ELSE IF ~d.email_address.some THEN Err(Missing("email_address"))
    ELSE IF ~Email_parse(d.email_address.v).ok THEN Email_parse(d.email_address.v)
    ELSE IF ~d.user_age.some THEN Err(Missing("user_age"))
    ELSE IF ~Age_parse_str(d.user_age.v).ok THEN Age_parse_str(d.user_age.v)
    ELSE IF ~d.created_at.some THEN Err(Missing("created_at"))
    ELSE IF ~parse_loose_time(d.created_at.v).ok THEN parse_loose_time(d.created_at.v)
    ELSE Ok([username |-> Username_new(d.user_name.v).val,
             age |-> Age_parse_str(d.user_age.v).val,
             email |-> Email_parse(d.email_address.v).val,
             created_at |-> parse_loose_time(d.created_at.v).val])

Acl_to_domain_AgeUnchecked(d) ==
    IF ~d.user_name.some THEN Err(Missing("user_name"))
    ELSE IF ~d.email_address.some THEN Err(Missing("email_address"))
    ELSE IF ~d.user_age.some THEN Err(Missing("user_age"))
    ELSE IF ~d.created_at.some THEN Err(Missing("created_at"))
    ELSE
    LET username == Username_new(d.user_name.v)
        email == Email_parse(d.email_address.v)
        age == Age_parse_str(d.user_age.v)
        created_at == parse_loose_time(d.created_at.v)
    IN
    IF ~username.ok THEN username
    ELSE IF ~email.ok THEN email
    ELSE IF ~created_at.ok THEN created_at
    ELSE Ok([username |-> username.val, age |-> IF age.ok THEN age.val ELSE 0,
             email |-> email.val, created_at |-> created_at.val])

Acl_to_domain(d) ==
    IF ~d.user_name.some THEN Err(Missing("user_name"))
    ELSE IF ~d.email_address.some THEN Err(Missing("email_address"))
    ELSE IF ~d.user_age.some THEN Err(Missing("user_age"))
    ELSE IF ~d.created_at.some THEN Err(Missing("created_at"))
    ELSE
    LET username == Username_new(d.user_name.v)
        email == Email_parse(d.email_address.v)
        age == Age_parse_str(d.user_age.v)
        created_at == parse_loose_time(d.created_at.v)
    IN
    IF ~username.ok THEN username
    ELSE IF ~email.ok THEN email
    ELSE IF ~age.ok THEN age
    ELSE IF ~created_at.ok THEN created_at
    ELSE Ok([username |-> username.val, age |-> age.val, email |-> email.val,
             created_at |-> created_at.val])

Acl_to_dto_Swapped(user) ==
    UserDto(Some(user.email), Some(to_string(user.age)), Some(user.username),
            Some(UnixSecs(unix_timestamp(user.created_at))))

Acl_to_dto(user) ==
    UserDto(Some(user.username), Some(to_string(user.age)), Some(user.email),
            Some(UnixSecs(unix_timestamp(user.created_at))))

(***************************************************************************)
(* The inputs the operations are applied to.                               *)
(***************************************************************************)
MaxNameLen == 3
MaxAgeLen == 3
MaxEmailLen == 4

Strings(chars, n) == UNION {[1..k -> chars] : k \in 0..n}

Text_sigma == <<"s", "i", "g", "m", "a">>
Text_sigma_example_com == <<"s", "i", "g", "m", "a", "@", "e", "x", "a", "m", "p", "l", "e", ".", "c", "o", "m">>
Text_a_b_co == <<"a", "@", "b", ".", "c", "o">>
Text_not_an_email == <<"n", "o", "t", "-", "a", "n", "-", "e", "m", "a", "i", "l">>
Text_strict_2024 == <<"2", "0", "2", "4", "-", "1", "2", "-", "2", "5", "T", "1", "2", ":", "3", "4", ":", "5", "6", "Z">>
Text_alt_2024 == <<"2", "0", "2", "4", "-", "1", "2", "-", "2", "5", " ", "1", "2", ":", "3", "4", ":", "5", "6", " ", "U", "T", "C">>
Text_strict_2023 == <<"2", "0", "2", "3", "-", "1", "1", "-", "1", "4", "T", "2", "2", ":", "1", "3", ":", "2", "0", "Z">>

Names == Strings({"a", " ", "\t"}, MaxNameLen) \cup {Text_sigma}

AgeTexts ==
    Strings({"0", "1", "2", "5", "6", "+", "-", " ", "a"}, MaxAgeLen)
    \cup {<<" ", "4", "2", " ">>, <<"0", "2", "5", "5">>, <<"+", "2", "5", "5">>,
          <<"6", "5", "5", "3", "5">>, <<"6", "5", "5", "3", "6">>,
          <<"9", "9", "9", "9", "9">>, <<"-", "1", " ">>, <<"\t", "7">>}

EmailTexts ==
    Strings({"a", "@", ".", " "}, MaxEmailLen)
    \cup {Text_sigma_example_com, Text_a_b_co, Text_not_an_email}

\* Timestamp texts: the moments below in the formats an API may send.
Pad2(n) == <<Digits[(n \div 10) + 1], Digits[(n % 10) + 1]>>
Pad4(n) == Pad2(n \div 100) \o Pad2(n % 100)

Moments ==
    {<<2024, 12, 25, 12, 34, 56>>, <<2023, 11, 14, 22, 13, 20>>,
     <<1970, 1, 1, 0, 0, 0>>, <<2024, 2, 29, 23, 59, 59>>,
     <<2023, 2, 29, 1, 2, 3>>, <<1969, 12, 31, 23, 59, 60>>,
     <<9999, 12, 31, 23, 59, 59>>, <<2024, 13, 1, 24, 0, 0>>}

Stamp(m, sep) ==
    Pad4(m[1]) \o <<"-">> \o Pad2(m[2]) \o <<"-">> \o Pad2(m[3]) \o sep
    \o Pad2(m[4]) \o <<":">> \o Pad2(m[5]) \o <<":">> \o Pad2(m[6])

Suffixes ==
    {<<"Z">>, <<"z">>, <<>>, <<" ", "U", "T", "C">>, <<".", "5", "Z">>,
     <<".", "Z">>, <<".", "1", "2", "3", "4", "5", "6", "7", "8", "9", "9", "Z">>,
     <<"+", "0", "2", ":", "0", "0">>, <<"-", "0", "5", ":", "3", "0">>,
     <<"Z", " ">>}

TimeTexts ==
    {Stamp(m, sep) \o suf : m \in Moments, sep \in {<<"T">>, <<"t">>, <<" ">>},
                            suf \in Suffixes}
    \cup {<<>>, <<"x">>, Text_sigma}

SecondsOfDay == {0, 45296, 80000, 86399}

TimestampDays ==
    {MIN_TIMESTAMP_DAY - 1, MIN_TIMESTAMP_DAY, -1, 0, 14288, 19675, 20082,
     MAX_TIMESTAMP_DAY, MAX_TIMESTAMP_DAY + 1}

LooseTimes ==
    {UnixSecs([d |-> d, s |-> s]) : d \in TimestampDays, s \in SecondsOfDay}
    \cup {Rfc3339(s) : s \in TimeTexts}

\* The records given to Acl::to_domain: every field absent, valid or invalid.
DtoNames == {None} \cup {Some(s) : s \in {Text_sigma, <<" ", "a", " ">>, <<" ", " ">>, <<>>}}
DtoAges ==
    {None} \cup {Some(s) : s \in {<<"1">>, <<" ", "4", "2", " ">>, <<"2", "5", "5">>,
                                  <<"0">>, <<"2", "5", "6">>, <<"x">>}}
DtoEmails ==
    {None} \cup {Some(s) : s \in {Text_sigma_example_com, Text_a_b_co,
                                  Text_not_an_email, <<>>}}
DtoTimes ==
    {None} \cup
    {Some(t) : t \in
        {UnixSecs([d |-> 19675, s |-> 80000]), UnixSecs([d |-> 0, s |-> 0]),
         UnixSecs([d |-> MAX_TIMESTAMP_DAY + 1, s |-> 0]),
         Rfc3339(Text_strict_2024), Rfc3339(Text_alt_2024),
         Rfc3339(Text_strict_2023),
         Rfc3339(Stamp(<<2024, 12, 25, 12, 34, 56>>, <<"T">>) \o <<".", "5", "Z">>),
         Rfc3339(Stamp(<<2024, 12, 25, 12, 34, 56>>, <<"T">>)
                 \o <<"+", "0", "2", ":", "0", "0">>),
         Rfc3339(Text_sigma)}}

Dtos ==
    {UserDto(n, a, e, c) : n \in DtoNames, a \in DtoAges, e \in DtoEmails,
                           c \in DtoTimes}

(***************************************************************************)
(* The program: a conversion is one independent application of a public   *)
(* operation to an input; Acl::to_dto is applied to the User a successful  *)
(* Acl::to_domain returned.  call names the operation applied last, arg is *)
(* its argument and ret its result; dto is the record the User in hand was *)
(* built from.                                                             *)
(***************************************************************************)
Init ==
    /\ call = "none"
    /\ arg = <<>>
    /\ ret = <<>>
    /\ dto = UserDto(None, None, None, None)

CallUsernameNew ==
    \E s \in Names :
        /\ call = "none"
        /\ call' = "Username::new"
        /\ arg' = s
        /\ ret' = Username_new(s)
        /\ UNCHANGED dto

CallAgeParseStr ==
    \E s \in AgeTexts :
        /\ call = "none"
        /\ call' = "Age::parse_str"
        /\ arg' = s
        /\ ret' = Age_parse_str(s)
        /\ UNCHANGED dto

CallEmailParse ==
    \E s \in EmailTexts :
        /\ call = "none"
        /\ call' = "Email::parse"
        /\ arg' = s
        /\ ret' = Email_parse(s)
        /\ UNCHANGED dto

CallParseLooseTime ==
    \E t \in LooseTimes :
        /\ call = "none"
        /\ call' = "parse_loose_time"
        /\ arg' = t
        /\ ret' = parse_loose_time(t)
        /\ UNCHANGED dto

CallToDomain ==
    \E d \in Dtos :
        /\ call = "none"
        /\ call' = "Acl::to_domain"
        /\ arg' = d
        /\ ret' = Acl_to_domain(d)
        /\ dto' = d

\* Acl::to_dto is applied to a User that Acl::to_domain returned.
CallToDto ==
    /\ call = "Acl::to_domain"
    /\ ret.ok
    /\ call' = "Acl::to_dto"
    /\ arg' = ret.val
    /\ ret' = Acl_to_dto(ret.val)
    /\ UNCHANGED dto

Next ==
    \/ CallUsernameNew
    \/ CallAgeParseStr
    \/ CallEmailParse
    \/ CallParseLooseTime
    \/ CallToDomain
    \/ CallToDto

Spec == Init /\ [][Next]_vars

(***************************************************************************)
(* Properties.                                                             *)
(***************************************************************************)
Least(S) == CHOOSE i \in S : \A j \in S : i <= j

\* The seconds of a pair (days, second of day), for values that fit.
Seconds(n) == n.d * 86400 + n.s

FieldOrder == <<"user_name", "email_address", "user_age", "created_at">>
ErrorOrder == <<UsernameEmpty, InvalidEmail, InvalidAge, InvalidCreatedAt>>

AllPresent(d) == \A i \in 1..4 : d[FieldOrder[i]].some

FieldResults(d) ==
    <<Username_new(d.user_name.v), Email_parse(d.email_address.v),
      Age_parse_str(d.user_age.v), parse_loose_time(d.created_at.v)>>

\* C1: Acl::to_domain reports the first failure of the sequence: presence of
\* user_name, email_address, user_age, created_at, then validity of username,
\* email, age, timestamp.  With a field absent the result is Missing of the
\* first absent field whatever the present fields hold; with all present and
\* some invalid it is the error of the first invalid one.
C1_FirstFailure ==
    call = "Acl::to_domain" =>
        LET absent == {i \in 1..4 : ~arg[FieldOrder[i]].some} IN
        IF absent # {} THEN ret = Err(Missing(FieldOrder[Least(absent)]))
        ELSE LET invalid == {i \in 1..4 : ~FieldResults(arg)[i].ok} IN
             invalid # {} => ret = Err(ErrorOrder[Least(invalid)])

C1_Witness ==
    /\ call = "Acl::to_domain"
    /\ ~arg.user_name.some
    /\ arg.email_address.some /\ ~Email_parse(arg.email_address.v).ok
    /\ arg.user_age.some /\ ~Age_parse_str(arg.user_age.v).ok
    /\ ret = Err(Missing("user_name"))

\* C2: Acl::to_domain is all-or-nothing.  It returns Ok(User) exactly when all
\* four fields are present and each passes its constructor, and an AclError
\* with no User otherwise.  A returned User has a username that is not blank
\* after trimming, an age in 1..255, the email text and the resolved instant,
\* each built from the corresponding input field.
C2_AllOrNothing ==
    call = "Acl::to_domain" =>
        /\ ret.ok <=> (AllPresent(arg) /\ \A i \in 1..4 : FieldResults(arg)[i].ok)
        /\ ~ret.ok => DOMAIN ret = {"ok", "err"}
        /\ ret.ok =>
            /\ \E k \in 1..Len(ret.val.username) : ~is_whitespace(ret.val.username[k])
            /\ ret.val.username = arg.user_name.v
            /\ ret.val.age \in 1..255
            /\ ret.val.age = parse_u16(trim(arg.user_age.v))
            /\ ret.val.email = arg.email_address.v
            /\ EmailAddress_parse(ret.val.email)
            /\ ret.val.created_at = parse_loose_time(arg.created_at.v).val

C2_Witness ==
    /\ call = "Acl::to_domain"
    /\ ret.ok
    /\ arg.user_age.v = <<" ", "4", "2", " ">>
    /\ ret.val.age = 42

\* C3: for every User u, resolving the timestamp of Acl::to_dto(u) gives back
\* u's instant exactly.
C3_RoundTripInstant ==
    call = "Acl::to_dto" =>
        LET back == parse_loose_time(ret.created_at.v) IN
        back.ok /\ dt_eq(back.val, arg.created_at)

\* C4: Acl::to_dto returns a record with all four fields present, user_name
\* and email_address the stored texts, user_age the decimal text of the age
\* and created_at in the UnixSecs variant, whatever the encoding the User was
\* built from.
C4_ToDtoCanonical ==
    call = "Acl::to_dto" =>
        /\ \A i \in 1..4 : ret[FieldOrder[i]].some
        /\ ret.user_name.v = arg.username
        /\ ret.email_address.v = arg.email
        /\ \A k \in 1..Len(ret.user_age.v) : IsDigit(ret.user_age.v[k])
        /\ Head(ret.user_age.v) # "0"
        /\ parse_u16(ret.user_age.v) = arg.age
        /\ ret.created_at.v.tag = "UnixSecs"

C4_Witness ==
    /\ call = "Acl::to_dto"
    /\ dto.created_at.v.tag = "Rfc3339"
    /\ arg.age = 42
    /\ ret.user_age.v = <<"4", "2">>
    /\ ret.created_at.v.tag = "UnixSecs"

\* C5: parse_loose_time of the text "2024-12-25 12:34:56 UTC" succeeds through
\* the fallback format and yields the instant of "2024-12-25T12:34:56Z".
C5_FallbackFormat ==
    (call = "parse_loose_time" /\ arg = Rfc3339(Text_alt_2024)) =>
        /\ ~Rfc3339_parse(arg.text).ok
        /\ ret.ok
        /\ dt_eq(ret.val, parse_loose_time(Rfc3339(Text_strict_2024)).val)

\* The texts that denote n: an optional "+", any number of "0", the decimal
\* digits of n.
Denoted(t) ==
    UNION {IF /\ sg + z < Len(t)
              /\ (sg = 1 => t[1] = "+")
              /\ \A k \in (sg + 1)..(sg + z) : t[k] = "0"
           THEN {n \in 0..U8_MAX : SubSeq(t, sg + z + 1, Len(t)) = to_string(n)}
           ELSE {} : sg \in {0, 1}, z \in 0..Len(t)}

\* The text between the leading and the trailing whitespace.
Core(s) ==
    LET inner == {k \in 1..Len(s) : ~is_whitespace(s[k])} IN
    IF inner = {} THEN <<>>
    ELSE SubSeq(s, Least(inner), CHOOSE j \in inner : \A k \in inner : k <= j)

\* C6: Age::parse_str accepts exactly the texts that, without their leading
\* and trailing whitespace, are a base-10 integer of value 1..255, and the
\* Age holds that value; every other text fails with InvalidAge.  "0", "256",
\* "-1" and "a" fail, "255" succeeds, " 42 " yields 42.
C6_AgeRange ==
    call = "Age::parse_str" =>
        LET values == Denoted(Core(arg)) \cap 1..255 IN
        /\ IF values # {} THEN \E n \in values : ret = Ok(n)
           ELSE ret = Err(InvalidAge)
        /\ arg \in {<<"0">>, <<"2", "5", "6">>, <<"-", "1">>, <<"a">>}
               => ret = Err(InvalidAge)
        /\ arg = <<"2", "5", "5">> => ret = Ok(255)
        /\ arg = <<" ", "4", "2", " ">> => ret = Ok(42)

C6_Witness ==
    /\ call = "Age::parse_str"
    /\ arg = <<" ", "4", "2", " ">>
    /\ ret = Ok(42)

\* C7: Username::new fails with UsernameEmpty exactly when the input holds
\* nothing but whitespace; otherwise it succeeds and as_str() is the input,
\* untrimmed.
C7_UsernameEmptiness ==
    call = "Username::new" =>
        LET blank == \A k \in 1..Len(arg) : is_whitespace(arg[k]) IN
        /\ blank => ret = Err(UsernameEmpty)
        /\ ~blank => ret = Ok(arg)

C7_Witness ==
    /\ call = "Username::new"
    /\ arg = <<" ", "a", " ">>
    /\ ret = Ok(<<" ", "a", " ">>)

\* C8: UnixSecs(n) resolves to the instant n seconds after 1970-01-01T00:00:00Z
\* when n is within -9999-01-01T00:00:00Z .. 9999-12-31T23:59:59Z and fails
\* with InvalidCreatedAt only outside of it; UnixSecs(1700000000) and
\* Rfc3339("2023-11-14T22:13:20Z") yield the identical instant.
C8_UnixSecs ==
    (call = "parse_loose_time" /\ arg.tag = "UnixSecs") =>
        LET lo == unix_timestamp(DateTime(MIN_YEAR, 1, 1, 0, 0, 0, 0, 0))
            hi == unix_timestamp(DateTime(MAX_YEAR, 12, 31, 23, 59, 59, 0, 0))
            n == arg.secs
            inRange ==
                /\ (n.d > lo.d \/ (n.d = lo.d /\ n.s >= lo.s))
                /\ (n.d < hi.d \/ (n.d = hi.d /\ n.s <= hi.s))
        IN
        /\ inRange =>
            /\ ret.ok
            /\ unix_timestamp(ret.val) = n
            /\ ret.val.nanosecond = 0
        /\ ~inRange => ret = Err(InvalidCreatedAt)
        /\ (n.d = 19675 /\ n.s = 80000) =>
            /\ Seconds(n) = 1700000000
            /\ parse_loose_time(Rfc3339(Text_strict_2023)).ok
            /\ ret = parse_loose_time(Rfc3339(Text_strict_2023))

C8_Witness ==
    /\ call = "parse_loose_time"
    /\ arg = UnixSecs([d |-> 19675, s |-> 80000])
    /\ ret = Ok(DateTime(2023, 11, 14, 22, 13, 20, 0, 0))

\* C9: Acl::to_domain of a record with valid username, age and email and
\* created_at = Rfc3339("2024-12-25T12:34:56Z") succeeds with a created_at of
\* Unix timestamp 1735139696.
C9_TestTimestamp ==
    (/\ call = "Acl::to_domain"
     /\ arg = UserDto(Some(Text_sigma), Some(<<"1">>), Some(Text_sigma_example_com),
                      Some(Rfc3339(Text_strict_2024)))) =>
        /\ ret.ok
        /\ Seconds(unix_timestamp(ret.val.created_at)) = 1735139696

====
